---- MODULE Spec2Model ----
(***************************************************************************)
(* url_exporter: the check orchestrator (internal/checker), the            *)
(* aggregation store and its queue consumer (internal/metrics) and the     *)
(* scrape path, as one state machine.                                      *)
(*                                                                         *)
(* Goroutines are modelled by program counters; every step between two     *)
(* synchronisation points (channel operation, mutex operation, context     *)
(* observation, network attempt) is one action.  A Go select with several  *)
(* ready cases is a nondeterministic choice between the ready cases.       *)
(***************************************************************************)
EXTENDS Integers, Sequences, FiniteSets, TLC

(* ------------------------------ bounds -------------------------------- *)

\* cfg.Retries
Retries == 1

\* number of ticks the ticker may deliver in one run
MaxTicks == 3

\* number of times Collector.Start may be invoked again after it returned
MaxRestarts == 1

\* number of calls of Checker.Shutdown
MaxShutdowns == 2

(* --------------------------- configuration ---------------------------- *)

\* The target lists the configuration may hold: an HTTP target with a
\* raw-connect target, and an HTTP target with one of a scheme no checker is
\* registered for.  A URL is its scheme and its authority.
Configs ==
    { << [scheme |-> "http", host |-> "a"], [scheme |-> "ftp",    host |-> "b"] >>,
      << [scheme |-> "http", host |-> "a"], [scheme |-> "gopher", host |-> "c"] >> }

\* every URL some configuration lists
AllURLs == UNION { { cfg[i] : i \in 1..Len(cfg) } : cfg \in Configs }

\* Checker.checkers, the scheme -> ProtocolChecker table built by New
checkers ==
    [ s \in {"http", "https"} |-> "HTTPChecker" ] @@
    [ s \in {"ftp", "sftp", "ssh", "telnet", "smtp", "mysql", "postgres",
             "postgresql", "redis", "mongodb"} |-> "TelnetChecker" ]

\* rest.Config.RetryCount given to the REST client by New
RetryCount == Retries

(* ------------------------------ results ------------------------------- *)

NoErr == "nil"

\* the zero Result a task starts from
NoResult ==
    [url |-> [scheme |-> "", host |-> ""], status |-> 0, ms |-> 0, err |-> NoErr,
     tick |-> 0, stamp |-> 0]

\* strconv.Itoa for the non-negative codes the checkers return
Digit(d) ==
    CASE d = 0 -> "0" [] d = 1 -> "1" [] d = 2 -> "2" [] d = 3 -> "3"
      [] d = 4 -> "4" [] d = 5 -> "5" [] d = 6 -> "6" [] d = 7 -> "7"
      [] d = 8 -> "8" [] d = 9 -> "9"

RECURSIVE Itoa(_)
Itoa(n) == IF n < 10 THEN Digit(n) ELSE Itoa(n \div 10) \o Digit(n % 10)

\* the status_code label Collector.Start computes for a result
StatusLabelErrorOnFailure(r) ==
    IF r.err = NoErr /\ r.status < 400 THEN Itoa(r.status) ELSE "error"

StatusLabel(r) == IF r.err = NoErr THEN Itoa(r.status) ELSE "error"

(* --------------------------- protocol checkers ------------------------ *)

\* What the REST client can report for one HEAD request: a transport
\* failure, a typed error carrying the response's status, or a response.
RestOutcomes ==
    { [kind |-> "execution", code |-> 0],
      [kind |-> "server",    code |-> 500] }

\* The same with a wider range of responses: 2xx and 3xx responses, and the
\* typed errors of the 4xx and 5xx responses.
RestOutcomesAll ==
    RestOutcomes \cup
    { [kind |-> "response",     code |-> 200],
      [kind |-> "response",     code |-> 299],
      [kind |-> "response",     code |-> 300],
      [kind |-> "responseerr",  code |-> 400],
      [kind |-> "unauthorized", code |-> 401],
      [kind |-> "notfound",     code |-> 404] }

\* the REST client's outcome for a request whose context is already done
RestAborted == [kind |-> "execution", code |-> 0]

\* HTTPChecker.Check: (statusCode, err) from the REST client's outcome
HTTPCheck(o) ==
    CASE o.kind = "execution"    -> [status |-> 0, err |-> "network error"]
      [] o.kind = "unauthorized" -> [status |-> o.code, err |-> NoErr]
      [] o.kind = "notfound"     -> [status |-> o.code, err |-> NoErr]
      [] o.kind = "server"       -> [status |-> o.code, err |-> NoErr]
      [] o.kind = "responseerr"  -> [status |-> o.code, err |-> NoErr]
      [] o.kind = "response"     -> [status |-> o.code, err |-> NoErr]
      [] OTHER                   -> [status |-> 0, err |-> "request failed"]

\* The REST client repeats a request only after a transport failure, while
\* its retry budget lasts and the request's context is still live.
RestRetriesOnStatus(o, n, done) == n <= RetryCount /\ ~done
\* the REST client's retry rule, had it gone through its retries on a
\* cancelled context
RestRetriesThroughCancel(o, n, done) == o.kind = "execution" /\ n <= RetryCount

RestRetries(o, n, done) == o.kind = "execution" /\ n <= RetryCount /\ ~done

\* TelnetChecker.Check, had it left the status code of a successful dial at
\* zero
TelnetCheckNoStatus(connected) ==
    IF connected THEN [status |-> 0, err |-> NoErr]
    ELSE [status |-> 0, err |-> "connection failed"]

\* TelnetChecker.Check: (statusCode, err) from the outcome of the dial
TelnetCheck(connected) ==
    IF connected THEN [status |-> 200, err |-> NoErr]
    ELSE [status |-> 0, err |-> "connection failed"]

(* ------------------------------- state -------------------------------- *)

VARIABLES
    Targets,      \* cfg.Targets, fixed at construction
    served,       \* what the monitored HTTP endpoints answer, fixed for a run
    startPc,      \* Checker.Start's position: idle, store, first, tasks, push, wait, done
    cancel,       \* Checker.cancel is set (non-nil)
    ctxDone,      \* the context Start derives with context.WithCancel is done
    results,      \* Checker.results, the buffered channel's content
    closed,       \* Checker.results has been closed
    task,         \* per target index, the task of the tick in flight: state, attempts
                  \* made, what the last attempt returned, result
    toPush,       \* checkAllURLs: indices of the results still to be sent
    tick,         \* number of checkAllURLs rounds begun
    sdCalls,      \* number of calls of Checker.Shutdown that have returned
    colPc,        \* Collector.Start's position: idle, init, loop, recv, wrote, done
    colCtxDone,   \* the context given to Collector.Start is done
    colCur,       \* the result Collector.Start has received and is processing
    lastResults,  \* Collector.lastResults: URL -> Result
    counters,     \* Collector.counters: URL -> status label -> count
    writer,       \* Collector.mutex is write-locked
    readers,      \* number of holders of Collector.mutex's read lock
    scrPc,        \* the scrape (Collect): idle, reading
    samples,      \* the metrics the Collect in progress has sent on its channel
    restarts,     \* number of times Collector.Start was invoked again
    owed,         \* history: results queued when the consumer's context was
                  \* cancelled and not received since
    pushCount,    \* history: per target index, results sent in the current tick
    cutShort,     \* history: the current tick ended without sending every result
    produced      \* history: URL -> label -> number of tasks resolved with that label

checkerVars == <<Targets, served, startPc, cancel, ctxDone, results, closed, task, toPush, tick>>
collectorVars == <<colPc, colCtxDone, colCur, lastResults, counters, writer,
                   readers, scrPc, samples, restarts, owed>>
historyVars == <<pushCount, cutShort, produced>>

vars == <<Targets, served, startPc, cancel, ctxDone, results, closed, task, toPush, tick,
          sdCalls, colPc, colCtxDone, colCur, lastResults, counters, writer,
          readers, scrPc, samples, restarts, owed, pushCount, cutShort, produced>>

\* the indices of cfg.Targets
TIdx == 1..Len(Targets)

\* the configured URLs
URLs == { Targets[i] : i \in TIdx }

\* cap(c.results), as New makes the channel
Capacity == Len(Targets) * 2

\* the labels a result of the model can carry
Labels == {"error", "200", "299", "300", "400", "401", "404", "500"}

\* a Go map as a function on the set of its keys
EmptyMap == [k \in {} |-> 0]

MapPut(m, k, v) == [x \in (DOMAIN m) \cup {k} |-> IF x = k THEN v ELSE m[x]]

\* m[k] of a map[string]int: the zero value when the key is absent
MapGet(m, k) == IF k \in DOMAIN m THEN m[k] ELSE 0

\* counters[url][label] as a scrape or a test reads it
Count(url, label) ==
    IF url \in DOMAIN counters THEN MapGet(counters[url], label) ELSE 0

\* what a task holds before its first attempt has returned
NoCheck == [status |-> 0, err |-> "unset"]

\* no task in flight
IdleTask == [st |-> "none", n |-> 0, last |-> NoCheck, res |-> NoResult]

\* checker.New and NewCollector: the state after construction, for a
\* configuration of cfgs and endpoints that answer with one of outcomes
InitOf(cfgs, outcomes) ==
    /\ Targets \in cfgs
    /\ served = outcomes
    /\ startPc = "idle"
    /\ cancel = FALSE
    /\ ctxDone = FALSE
    /\ results = << >>
    /\ closed = FALSE
    /\ task = [i \in TIdx |-> IdleTask]
    /\ toPush = {}
    /\ tick = 0
    /\ sdCalls = 0
    /\ colPc = "idle"
    /\ colCtxDone = FALSE
    /\ colCur = NoResult
    /\ lastResults = EmptyMap
    /\ counters = EmptyMap
    /\ writer = FALSE
    /\ readers = 0
    /\ scrPc = "idle"
    /\ samples = {}
    /\ restarts = 0
    /\ owed = 0
    /\ pushCount = [i \in TIdx |-> 0]
    /\ cutShort = FALSE
    /\ produced = [u \in URLs |-> [l \in Labels |-> 0]]

Init == InitOf(Configs, RestOutcomes)

\* a single HTTP target whose endpoint gives any of the responses
InitResponses == InitOf({ << [scheme |-> "http", host |-> "a"] >> }, RestOutcomesAll)

\* a single HTTP target that is unreachable or answers 500
InitOne == InitOf({<<[scheme |-> "http", host |-> "a"]>>}, RestOutcomes)

(* ------------------------- Checker.Start ------------------------------ *)

\* go checker.Start(ctx): ctx, cancel := context.WithCancel(ctx)
StartCall ==
    /\ startPc = "idle"
    /\ startPc' = "store"
    /\ UNCHANGED <<Targets, served, cancel, ctxDone, results, closed, task, toPush, tick>>
    /\ UNCHANGED <<sdCalls, collectorVars, historyVars>>

\* c.mutex.Lock(); c.cancel = cancel; c.mutex.Unlock()
StartStoreCancel ==
    /\ startPc = "store"
    /\ startPc' = "first"
    /\ cancel' = TRUE
    /\ UNCHANGED <<Targets, served, ctxDone, results, closed, task, toPush, tick>>
    /\ UNCHANGED <<sdCalls, collectorVars, historyVars>>

\* checkAllURLs up to the call of ExecuteConcurrently: one function per
\* configured target, all started
FanOut ==
    /\ task' = [i \in TIdx |-> [IdleTask EXCEPT !.st = "run"]]
    /\ toPush' = {}
    /\ tick' = tick + 1
    /\ pushCount' = [i \in TIdx |-> 0]
    /\ cutShort' = FALSE

\* Start, had it gone to its select without the initial checkAllURLs
StartFirstTickAwaitsTicker ==
    /\ startPc = "first"
    /\ startPc' = "wait"
    /\ UNCHANGED <<Targets, served, cancel, ctxDone, results, closed, task, toPush, tick>>
    /\ UNCHANGED <<sdCalls, collectorVars, historyVars>>

\* the initial c.checkAllURLs(ctx) of Start
StartFirstTick ==
    /\ startPc = "first"
    /\ startPc' = "tasks"
    /\ FanOut
    /\ UNCHANGED <<Targets, served, cancel, ctxDone, results, closed>>
    /\ UNCHANGED <<sdCalls, collectorVars, produced>>

\* the ticker case of Start's select, had it started checkAllURLs without
\* waiting for the one in progress
WaitTickerOverlapping ==
    /\ startPc \in {"wait", "tasks", "push"}
    /\ tick < MaxTicks
    /\ startPc' = "tasks"
    /\ FanOut
    /\ UNCHANGED <<Targets, served, cancel, ctxDone, results, closed>>
    /\ UNCHANGED <<sdCalls, collectorVars, produced>>

\* Start's select, case <-ticker.C: c.checkAllURLs(ctx)
WaitTicker ==
    /\ startPc = "wait"
    /\ tick < MaxTicks
    /\ startPc' = "tasks"
    /\ FanOut
    /\ UNCHANGED <<Targets, served, cancel, ctxDone, results, closed>>
    /\ UNCHANGED <<sdCalls, collectorVars, produced>>

\* Start's select, case <-ctx.Done(): close(c.results); return
WaitDoneOrFailed ==
    /\ startPc = "wait"
    /\ ctxDone \/ \E u \in URLs : produced[u]["error"] > 0
    /\ startPc' = "done"
    /\ closed' = TRUE
    /\ UNCHANGED <<Targets, served, cancel, ctxDone, results, task, toPush, tick>>
    /\ UNCHANGED <<sdCalls, collectorVars, historyVars>>

WaitDone ==
    /\ startPc = "wait"
    /\ ctxDone
    /\ startPc' = "done"
    /\ closed' = TRUE
    /\ UNCHANGED <<Targets, served, cancel, ctxDone, results, task, toPush, tick>>
    /\ UNCHANGED <<sdCalls, collectorVars, historyVars>>

(* ---------------------- the per-target tasks -------------------------- *)

\* checkURL evaluates Timestamp: time.Now() in the Result literal it starts
\* from, before it calls performCheck: the number of attempts made by then
StampedAfter == 0

\* checkURL, had it recorded the elapsed time of a failed check as well
CheckURLTimesFailures(url, chk, k, elapsed) ==
    IF chk.err = NoErr
    THEN [url |-> url, status |-> chk.status, ms |-> elapsed, err |-> NoErr,
          tick |-> k, stamp |-> StampedAfter]
    ELSE [url |-> url, status |-> 0, ms |-> elapsed, err |-> chk.err,
          tick |-> k, stamp |-> StampedAfter]

\* checkURL: the Result built from what performCheck returned after elapsed
\* milliseconds; the timestamp, of tick k, is taken before the check
CheckURL(url, chk, k, elapsed) ==
    IF chk.err = NoErr
    THEN [url |-> url, status |-> chk.status, ms |-> elapsed, err |-> NoErr,
          tick |-> k, stamp |-> StampedAfter]
    ELSE [url |-> url, status |-> 0, ms |-> 0, err |-> chk.err,
          tick |-> k, stamp |-> StampedAfter]

\* time.Since(start) in milliseconds, as the checks of the model measure it
ElapsedMs == {5}

\* the function of target i returns: performCheck made n attempts so far and
\* returned chk
Resolve(i, n, chk) ==
    \E elapsed \in ElapsedMs :
        LET r == CheckURL(Targets[i], chk, tick, elapsed) IN
        /\ task' = [task EXCEPT ![i] = [st |-> "done", n |-> n, last |-> chk, res |-> r]]
        /\ produced' = [produced EXCEPT ![r.url][StatusLabel(r)] = @ + 1]

\* performCheck for a scheme without a registered checker: no network call
CheckUnsupportedStalls(i) ==
    /\ Targets[i].scheme \notin DOMAIN checkers
    /\ FALSE
    /\ UNCHANGED <<task, produced>>

\* performCheck for a scheme without a registered checker, had it counted as
\* a network attempt
CheckUnsupportedAttempts(i) ==
    /\ Targets[i].scheme \notin DOMAIN checkers
    /\ Resolve(i, task[i].n + 1, [status |-> 0, err |-> "unsupported protocol"])

CheckUnsupported(i) ==
    /\ Targets[i].scheme \notin DOMAIN checkers
    /\ Resolve(i, task[i].n, [status |-> 0, err |-> "unsupported protocol"])

\* HTTPChecker.Check: one request of the REST client, which repeats it
\* itself after a transport failure
CheckHTTP(i) ==
    /\ Targets[i].scheme \in DOMAIN checkers
    /\ checkers[Targets[i].scheme] = "HTTPChecker"
    /\ \E o \in (IF ctxDone THEN {RestAborted} ELSE served) :
         LET n == task[i].n + 1 IN
         IF RestRetries(o, n, ctxDone)
         THEN /\ task' = [task EXCEPT ![i].n = n, ![i].last = HTTPCheck(o)]
              /\ UNCHANGED produced
         ELSE Resolve(i, n, HTTPCheck(o))

\* TelnetChecker.Check, had its dial had no timeout and never returned
CheckTelnetNoTimeout(i) ==
    /\ Targets[i].scheme \in DOMAIN checkers
    /\ checkers[Targets[i].scheme] = "TelnetChecker"
    /\ FALSE
    /\ UNCHANGED <<task, produced>>

\* TelnetChecker.Check: one dial
CheckTelnet(i) ==
    /\ Targets[i].scheme \in DOMAIN checkers
    /\ checkers[Targets[i].scheme] = "TelnetChecker"
    /\ \E connected \in (IF ctxDone THEN {FALSE} ELSE BOOLEAN) :
         Resolve(i, task[i].n + 1, TelnetCheck(connected))

\* one step of the function ExecuteConcurrently runs for target i
TaskStep(i) ==
    /\ startPc = "tasks"
    /\ task[i].st = "run"
    /\ \/ CheckUnsupported(i)
       \/ CheckHTTP(i)
       \/ CheckTelnet(i)
    /\ UNCHANGED <<Targets, served, startPc, cancel, ctxDone, results, closed, toPush, tick>>
    /\ UNCHANGED <<sdCalls, collectorVars, pushCount, cutShort>>

(* -------------------- checkAllURLs: fan-in and sends ------------------ *)

\* ExecuteConcurrently can report an error instead of the results: the
\* functions themselves always return a nil error, so only when its context
\* was cancelled under it
ExecutorFailsOnResultError ==
    ctxDone \/ \E i \in TIdx : task[i].res.err # NoErr

ExecutorMayFail == ctxDone

\* ExecuteConcurrently returns an error: log it and return
FanInError ==
    /\ startPc = "tasks"
    /\ \A i \in TIdx : task[i].st = "done"
    /\ ExecutorMayFail
    /\ startPc' = "wait"
    /\ cutShort' = TRUE
    /\ task' = [i \in TIdx |-> IdleTask]
    /\ UNCHANGED <<Targets, served, cancel, ctxDone, results, closed, toPush, tick>>
    /\ UNCHANGED <<sdCalls, collectorVars, pushCount, produced>>

\* the keys of the map ExecuteConcurrently returns: one per function, as the
\* functions are registered under the keys url_0, url_1, ...
ResultKeysShared == IF TIdx = {} THEN {} ELSE {CHOOSE i \in TIdx : TRUE}

ResultKeys == TIdx

\* ExecuteConcurrently, had it returned as soon as one function was done
FanInFirstDone ==
    /\ startPc = "tasks"
    /\ \E i \in TIdx : task[i].st = "done"
    /\ startPc' = "push"
    /\ toPush' = { i \in TIdx : task[i].st = "done" }
    /\ UNCHANGED <<Targets, served, cancel, ctxDone, results, closed, task, tick>>
    /\ UNCHANGED <<sdCalls, collectorVars, historyVars>>

\* ExecuteConcurrently returns the results of all the functions
FanIn ==
    /\ startPc = "tasks"
    /\ \A i \in TIdx : task[i].st = "done"
    /\ startPc' = "push"
    /\ toPush' = ResultKeys
    /\ task' = [i \in TIdx |-> IF i \in ResultKeys THEN task[i] ELSE IdleTask]
    /\ UNCHANGED <<Targets, served, cancel, ctxDone, results, closed, tick>>
    /\ UNCHANGED <<sdCalls, collectorVars, historyVars>>

\* select, case c.results <- result, on any result not sent yet
PushOneDropOnFull(i) ==
    /\ startPc = "push"
    /\ i \in toPush
    /\ results' = IF Len(results) < Capacity
                  THEN Append(results, task[i].res) ELSE results
    /\ toPush' = toPush \ {i}
    /\ startPc' = IF toPush' = {} THEN "wait" ELSE "push"
    /\ pushCount' = [pushCount EXCEPT ![i] = @ + 1]
    /\ task' = [task EXCEPT ![i] = IdleTask]
    /\ UNCHANGED <<Targets, served, cancel, ctxDone, closed, tick>>
    /\ UNCHANGED <<sdCalls, collectorVars, cutShort, produced>>

\* the send of a result, had the queue been unbounded
PushOneUnbounded(i) ==
    /\ startPc = "push"
    /\ i \in toPush
    /\ results' = Append(results, task[i].res)
    /\ toPush' = toPush \ {i}
    /\ startPc' = IF toPush' = {} THEN "wait" ELSE "push"
    /\ pushCount' = [pushCount EXCEPT ![i] = @ + 1]
    /\ task' = [task EXCEPT ![i] = IdleTask]
    /\ UNCHANGED <<Targets, served, cancel, ctxDone, closed, tick>>
    /\ UNCHANGED <<sdCalls, collectorVars, cutShort, produced>>

PushOne(i) ==
    /\ startPc = "push"
    /\ i \in toPush
    /\ Len(results) < Capacity
    /\ results' = Append(results, task[i].res)
    /\ toPush' = toPush \ {i}
    /\ startPc' = IF toPush' = {} THEN "wait" ELSE "push"
    /\ pushCount' = [pushCount EXCEPT ![i] = @ + 1]
    /\ task' = [task EXCEPT ![i] = IdleTask]
    /\ UNCHANGED <<Targets, served, cancel, ctxDone, closed, tick>>
    /\ UNCHANGED <<sdCalls, collectorVars, cutShort, produced>>

\* select, case <-ctx.Done(): return
PushAbandonNever ==
    /\ FALSE
    /\ UNCHANGED vars

PushAbandon ==
    /\ startPc = "push"
    /\ ctxDone
    /\ startPc' = "wait"
    /\ toPush' = {}
    /\ cutShort' = TRUE
    /\ task' = [i \in TIdx |-> IdleTask]
    /\ UNCHANGED <<Targets, served, cancel, ctxDone, results, closed, tick>>
    /\ UNCHANGED <<sdCalls, collectorVars, pushCount, produced>>

(* ------------------- cancellation and Checker.Shutdown ---------------- *)

\* the caller of Start cancels the context it passed in, which cancels the
\* context Start derives from it
CancelParent ==
    /\ ~ctxDone
    /\ ctxDone' = TRUE
    /\ UNCHANGED <<Targets, served, startPc, cancel, results, closed, task, toPush, tick>>
    /\ UNCHANGED <<sdCalls, collectorVars, historyVars>>

\* Shutdown: read c.cancel under the read lock; if cancel != nil { cancel() };
\* return nil
ShutdownClosesQueue ==
    /\ sdCalls < MaxShutdowns
    /\ sdCalls' = sdCalls + 1
    /\ ctxDone' = (ctxDone \/ cancel)
    /\ closed' = (closed \/ cancel)
    /\ UNCHANGED <<Targets, served, startPc, cancel, results, task, toPush, tick>>
    /\ UNCHANGED <<collectorVars, historyVars>>

\* Shutdown, had its signal been kept for a Start that stores its handle
\* later
ShutdownRemembered ==
    /\ sdCalls < MaxShutdowns
    /\ sdCalls' = sdCalls + 1
    /\ ctxDone' = TRUE
    /\ UNCHANGED <<Targets, served, startPc, cancel, results, closed, task, toPush, tick>>
    /\ UNCHANGED <<collectorVars, historyVars>>

Shutdown ==
    /\ sdCalls < MaxShutdowns
    /\ sdCalls' = sdCalls + 1
    /\ ctxDone' = (ctxDone \/ cancel)
    /\ UNCHANGED <<Targets, served, startPc, cancel, results, closed, task, toPush, tick>>
    /\ UNCHANGED <<collectorVars, historyVars>>

(* ------------------- Collector.Start: the queue consumer -------------- *)

\* go collector.Start(ctx)
ColStartCall ==
    /\ colPc = "idle"
    /\ colPc' = "init"
    /\ UNCHANGED <<colCtxDone, colCur, lastResults, counters, writer, readers,
                   scrPc, samples, restarts, owed>>
    /\ UNCHANGED <<checkerVars, sdCalls, historyVars>>

\* the counters Start sets up: a fresh empty map for every configured target
InitCounters(cs) ==
    [u \in (DOMAIN cs) \cup URLs |-> IF u \in URLs THEN EmptyMap ELSE cs[u]]

\* Start: under the write lock, c.counters[url] = make(map[string]int) for
\* every configured target
ColInit ==
    /\ colPc = "init"
    /\ ~writer /\ readers = 0
    /\ counters' = InitCounters(counters)
    /\ colPc' = "loop"
    /\ UNCHANGED <<colCtxDone, colCur, lastResults, writer, readers, scrPc, samples, restarts, owed>>
    /\ UNCHANGED <<checkerVars, sdCalls, historyVars>>

\* the consumer's loop, had it watched the queue only
ColCtxDoneIgnored ==
    /\ FALSE
    /\ UNCHANGED vars

\* select, case <-ctx.Done(): return
ColCtxDone ==
    /\ colPc = "loop"
    /\ colCtxDone
    /\ colPc' = "done"
    /\ UNCHANGED <<colCtxDone, colCur, lastResults, counters, writer, readers,
                   scrPc, samples, restarts, owed>>
    /\ UNCHANGED <<checkerVars, sdCalls, historyVars>>

\* select, case result, ok := <-c.checker.Results() with ok true
ColRecvNewestFirst ==
    /\ colPc = "loop"
    /\ results # << >>
    /\ colCur' = results[Len(results)]
    /\ results' = SubSeq(results, 1, Len(results) - 1)
    /\ colPc' = "recv"
    /\ owed' = IF owed > 0 THEN owed - 1 ELSE 0
    /\ UNCHANGED <<colCtxDone, lastResults, counters, writer, readers, scrPc, samples, restarts>>
    /\ UNCHANGED <<Targets, served, startPc, cancel, ctxDone, closed, task, toPush, tick>>
    /\ UNCHANGED <<sdCalls, historyVars>>

ColRecv ==
    /\ colPc = "loop"
    /\ results # << >>
    /\ colCur' = Head(results)
    /\ results' = Tail(results)
    /\ colPc' = "recv"
    /\ owed' = IF owed > 0 THEN owed - 1 ELSE 0
    /\ UNCHANGED <<colCtxDone, lastResults, counters, writer, readers, scrPc, samples, restarts>>
    /\ UNCHANGED <<Targets, served, startPc, cancel, ctxDone, closed, task, toPush, tick>>
    /\ UNCHANGED <<sdCalls, historyVars>>

\* the consumer's receive, had it not looked at the ok of a closed queue
ColClosedIgnored ==
    /\ FALSE
    /\ UNCHANGED vars

\* select, case result, ok := <-c.checker.Results() with ok false: return
ColClosed ==
    /\ colPc = "loop"
    /\ results = << >>
    /\ closed
    /\ colPc' = "done"
    /\ UNCHANGED <<colCtxDone, colCur, lastResults, counters, writer, readers,
                   scrPc, samples, restarts, owed>>
    /\ UNCHANGED <<checkerVars, sdCalls, historyVars>>

\* c.mutex.Lock(); c.lastResults[result.URL] = &result
ColSetLastUnlocked ==
    /\ colPc = "recv"
    /\ lastResults' = MapPut(lastResults, colCur.url, colCur)
    /\ colPc' = "wrote"
    /\ UNCHANGED <<colCtxDone, colCur, counters, writer, readers, scrPc, samples, restarts, owed>>
    /\ UNCHANGED <<checkerVars, sdCalls, historyVars>>

ColSetLast ==
    /\ colPc = "recv"
    /\ ~writer /\ readers = 0
    /\ writer' = TRUE
    /\ lastResults' = MapPut(lastResults, colCur.url, colCur)
    /\ colPc' = "wrote"
    /\ UNCHANGED <<colCtxDone, colCur, counters, readers, scrPc, samples, restarts, owed>>
    /\ UNCHANGED <<checkerVars, sdCalls, historyVars>>

\* the counter update, had it started the target's counters afresh at every
\* result
IncrementFresh(cs, r) ==
    LET m == IF r.url \in DOMAIN cs THEN cs[r.url] ELSE EmptyMap
    IN  MapPut(cs, r.url, MapPut(EmptyMap, StatusLabel(r), MapGet(m, StatusLabel(r)) + 1))

\* the counter update of one result: the entry of the URL is created when
\* missing, then c.counters[result.URL][statusCode]++
Increment(cs, r) ==
    LET m == IF r.url \in DOMAIN cs THEN cs[r.url] ELSE EmptyMap
    IN  MapPut(cs, r.url, MapPut(m, StatusLabel(r), MapGet(m, StatusLabel(r)) + 1))

\* the counter update, had the consumer kept the lock until the next result
\* was in the queue
ColCountAwaitsResult ==
    /\ colPc = "wrote"
    /\ results # << >>
    /\ counters' = Increment(counters, colCur)
    /\ writer' = FALSE
    /\ colCur' = NoResult
    /\ colPc' = "loop"
    /\ UNCHANGED <<colCtxDone, lastResults, readers, scrPc, samples, restarts, owed>>
    /\ UNCHANGED <<checkerVars, sdCalls, historyVars>>

\* the counter update; c.mutex.Unlock()
ColCount ==
    /\ colPc = "wrote"
    /\ counters' = Increment(counters, colCur)
    /\ writer' = FALSE
    /\ colCur' = NoResult
    /\ colPc' = "loop"
    /\ UNCHANGED <<colCtxDone, lastResults, readers, scrPc, samples, restarts, owed>>
    /\ UNCHANGED <<checkerVars, sdCalls, historyVars>>

\* the caller of Collector.Start cancels the context it passed in
CancelCollector ==
    /\ ~colCtxDone
    /\ colCtxDone' = TRUE
    /\ owed' = Len(results)
    /\ UNCHANGED <<colPc, colCur, lastResults, counters, writer, readers,
                   scrPc, samples, restarts>>
    /\ UNCHANGED <<checkerVars, sdCalls, historyVars>>

\* Collector.Start is invoked again, after it returned
ColRestart ==
    /\ colPc = "done"
    /\ restarts < MaxRestarts
    /\ restarts' = restarts + 1
    /\ colPc' = "init"
    /\ UNCHANGED <<colCtxDone, colCur, lastResults, counters, writer, readers, scrPc, samples, owed>>
    /\ UNCHANGED <<checkerVars, sdCalls, historyVars>>

(* ------------------------- Collector.Collect -------------------------- *)

\* a metric sent by Collect: its descriptor, its url and status_code labels
\* (host, path and instance follow from the url) and its value
Sample(name, url, label, value) ==
    [name |-> name, url |-> url, label |-> label, value |-> value]

\* the value of url_up for a result
UrlUpInclusive(r) == IF r.err = NoErr /\ r.status >= 200 /\ r.status <= 300 THEN 1 ELSE 0

UrlUp(r) == IF r.err = NoErr /\ r.status >= 200 /\ r.status < 300 THEN 1 ELSE 0

\* the value of url_error for a result
UrlErrorOnFailure(r) == IF r.err # NoErr \/ r.status >= 400 THEN 1 ELSE 0

UrlError(r) == IF r.err # NoErr THEN 1 ELSE 0

\* the results the first loop of Collect ranges over
GaugeResultsFabricated ==
    { lastResults[u] : u \in DOMAIN lastResults } \cup
    { [NoResult EXCEPT !.url = u] : u \in URLs \ DOMAIN lastResults }

GaugeResults == { lastResults[u] : u \in DOMAIN lastResults }

\* the gauges of one result: url_up and url_error, and when it has no error
\* url_response_time_milliseconds and url_http_status_code
GaugeSamplesZeroOnError(r) ==
    { Sample("url_up", r.url, "", UrlUp(r)),
      Sample("url_error", r.url, "", UrlError(r)),
      Sample("url_response_time_milliseconds", r.url, "", r.ms),
      Sample("url_http_status_code", r.url, "", r.status) }

GaugeSamples(r) ==
    { Sample("url_up", r.url, "", UrlUp(r)),
      Sample("url_error", r.url, "", UrlError(r)) } \cup
    IF r.err = NoErr
    THEN { Sample("url_response_time_milliseconds", r.url, "", r.ms),
           Sample("url_http_status_code", r.url, "", r.status) }
    ELSE {}

\* the second loop of Collect, had it kept url_status_code_total for HTTP
\* status codes only
CounterSamplesCodesOnly(url) ==
    IF url \notin DOMAIN lastResults THEN {}
    ELSE UNION { { Sample("url_check_total", url, l, counters[url][l]) } \cup
                 (IF l = "error" THEN {}
                  ELSE { Sample("url_status_code_total", url, l, counters[url][l]) }) :
                 l \in DOMAIN counters[url] }

\* the second loop of Collect for one entry of c.counters: nothing when the
\* url has no last result, else two counters per status label
CounterSamples(url) ==
    IF url \notin DOMAIN lastResults THEN {}
    ELSE UNION { { Sample("url_check_total", url, l, counters[url][l]),
                   Sample("url_status_code_total", url, l, counters[url][l]) } :
                 l \in DOMAIN counters[url] }

\* everything one Collect sends on its channel
CollectSamples ==
    UNION { GaugeSamples(r) : r \in GaugeResults } \cup
    UNION { CounterSamples(url) : url \in DOMAIN counters }

\* Collect: c.mutex.RLock(), then the two loops; the store cannot change
\* while the read lock is held
ScrapeBegin ==
    /\ scrPc = "idle"
    /\ ~writer
    /\ readers' = readers + 1
    /\ scrPc' = "reading"
    /\ samples' = CollectSamples
    /\ UNCHANGED <<colPc, colCtxDone, colCur, lastResults, counters, writer, restarts, owed>>
    /\ UNCHANGED <<checkerVars, sdCalls, historyVars>>

\* Collect returns: the deferred c.mutex.RUnlock()
ScrapeEnd ==
    /\ scrPc = "reading"
    /\ readers' = readers - 1
    /\ scrPc' = "idle"
    /\ samples' = {}
    /\ UNCHANGED <<colPc, colCtxDone, colCur, lastResults, counters, writer, restarts, owed>>
    /\ UNCHANGED <<checkerVars, sdCalls, historyVars>>

(* --------------------------- specifications --------------------------- *)

\* The server's wiring: Checker.Start and Collector.Start are each started
\* once on context.Background(), scrapes arrive at any time, and the only
\* cancellation is Checker.Shutdown.
Next ==
    \/ StartCall
    \/ StartStoreCancel
    \/ StartFirstTick
    \/ WaitTicker
    \/ WaitDone
    \/ \E i \in TIdx : TaskStep(i)
    \/ FanIn
    \/ FanInError
    \/ \E i \in TIdx : PushOne(i)
    \/ PushAbandon
    \/ Shutdown
    \/ ColStartCall
    \/ ColInit
    \/ ColRecv
    \/ ColClosed
    \/ ColSetLast
    \/ ColCount
    \/ ScrapeBegin
    \/ ScrapeEnd

Spec == Init /\ [][Next]_vars

\* The components driven by a caller that cancels the contexts it passed to
\* Checker.Start and to Collector.Start.
NextCtx ==
    \/ Next
    \/ CancelParent
    \/ CancelCollector
    \/ ColCtxDone

SpecCtx == Init /\ [][NextCtx]_vars

\* As Spec, and a caller invokes Collector.Start again after it returned.
NextRestart ==
    \/ Next
    \/ ColRestart

SpecRestart == Init /\ [][NextRestart]_vars


\* The orchestrator and the queue consumer driven by a caller that cancels
\* the context it passed to Checker.Start or calls Shutdown.  Scrapes, which
\* touch the store only, are left out.
NextCancel ==
    \/ StartCall
    \/ StartStoreCancel
    \/ StartFirstTick
    \/ WaitTicker
    \/ WaitDone
    \/ \E i \in TIdx : TaskStep(i)
    \/ FanIn
    \/ FanInError
    \/ \E i \in TIdx : PushOne(i)
    \/ PushAbandon
    \/ Shutdown
    \/ CancelParent
    \/ ColStartCall
    \/ ColInit
    \/ ColRecv
    \/ ColClosed
    \/ ColSetLast
    \/ ColCount

SpecCancel == Init /\ [][NextCancel]_vars

\* The server's two workers and Checker.Shutdown, without the scrapes: a
\* scrape changes nothing but the read lock it takes and releases.
NextWorkers ==
    \/ StartCall
    \/ StartStoreCancel
    \/ StartFirstTick
    \/ WaitTicker
    \/ WaitDone
    \/ \E i \in TIdx : TaskStep(i)
    \/ FanIn
    \/ FanInError
    \/ \E i \in TIdx : PushOne(i)
    \/ PushAbandon
    \/ Shutdown
    \/ ColStartCall
    \/ ColInit
    \/ ColRecv
    \/ ColClosed
    \/ ColSetLast
    \/ ColCount

SpecWorkers == Init /\ [][NextWorkers]_vars

\* The server's wiring while nobody calls Shutdown: the context is never
\* done and the queue is never closed, so the steps that wait for either
\* never happen.
NextSteady ==
    \/ StartCall
    \/ StartStoreCancel
    \/ StartFirstTick
    \/ WaitTicker
    \/ \E i \in TIdx : TaskStep(i)
    \/ FanIn
    \/ \E i \in TIdx : PushOne(i)
    \/ ColStartCall
    \/ ColInit
    \/ ColRecv
    \/ ColSetLast
    \/ ColCount
    \/ ScrapeBegin
    \/ ScrapeEnd

\* The server's two workers and the scrapes while nobody calls Shutdown.
SpecSteady == Init /\ [][NextSteady]_vars

\* The two workers while nobody calls Shutdown, driven by a caller that
\* cancels the context it passed to Collector.Start.  Scrapes, which only
\* take and release the read lock, are left out.
NextConsumerCancel ==
    \/ StartCall
    \/ StartStoreCancel
    \/ StartFirstTick
    \/ WaitTicker
    \/ \E i \in TIdx : TaskStep(i)
    \/ FanIn
    \/ \E i \in TIdx : PushOne(i)
    \/ ColStartCall
    \/ ColInit
    \/ ColRecv
    \/ ColSetLast
    \/ ColCount
    \/ CancelCollector
    \/ ColCtxDone

SpecConsumerCancel == Init /\ [][NextConsumerCancel]_vars

\* The same for a single HTTP target and the wider range of responses.
SpecResponses == InitResponses /\ [][NextSteady]_vars

(* ------------------------------ fairness ------------------------------ *)

\* a step of the goroutine running Checker.Start, other than its tasks
StartStep ==
    \/ StartStoreCancel
    \/ StartFirstTick
    \/ FanIn
    \/ FanInError
    \/ \E i \in TIdx : PushOne(i)
    \/ PushAbandon
    \/ WaitDone

\* The Go scheduler runs every runnable goroutine: Start's goroutine and the
\* goroutine of each task take a step when one stays possible (a network
\* attempt ends, by the timeout at the latest).  A select whose ctx.Done()
\* case is ready at every visit takes that case at some visit.  Nothing
\* is assumed of the consumer or of the callers.
Fairness ==
    /\ WF_vars(StartStep)
    /\ \A i \in {1, 2} : WF_vars(i \in TIdx /\ TaskStep(i))
    /\ SF_vars(WaitDone)

FairCancel == Init /\ [][NextCancel]_vars /\ Fairness

\* a step of the goroutine running Collector.Start that takes no lock
ColStep ==
    \/ ColStartCall
    \/ ColRecv
    \/ ColClosed
    \/ ColCount

\* a step of Checker.Start or of one of its tasks while nothing is cancelled
CheckerStep ==
    \/ StartCall
    \/ StartStoreCancel
    \/ StartFirstTick
    \/ WaitTicker
    \/ \E i \in TIdx : TaskStep(i)
    \/ FanIn
    \/ \E i \in TIdx : PushOne(i)

\* The server starts both workers, the ticker keeps firing and the checker's
\* goroutines are scheduled.  The consumer's goroutine is scheduled, and its
\* Lock is granted at some point whatever the scrapes do: a pending Lock of a
\* sync.RWMutex keeps new readers out.  A Collect that holds the read lock
\* ends.  Scrapes arrive or not.
FairnessSteady ==
    /\ WF_vars(CheckerStep)
    /\ WF_vars(ColStep)
    /\ SF_vars(ColInit \/ ColSetLast)
    /\ WF_vars(ScrapeEnd)

FairSteady == Init /\ [][NextSteady]_vars /\ FairnessSteady

\* a step of the goroutine running Collector.Start, other than the ctx.Done()
\* case of its select
ConsumerStep ==
    \/ ColStartCall
    \/ ColInit
    \/ ColRecv
    \/ ColSetLast
    \/ ColCount

\* The consumer's goroutine is started and scheduled, and its select takes
\* the ctx.Done() case at some visit when that case is ready at every visit.
\* Nothing is assumed of the checker: it may never start, and never send.
FairnessConsumer ==
    /\ WF_vars(ConsumerStep)
    /\ SF_vars(ColCtxDone)

FairConsumerCancel ==
    InitOne /\ [][NextConsumerCancel]_vars /\ FairnessConsumer

\* The server's two workers while nobody calls Shutdown and nothing is
\* scraped.
NextTicking ==
    \/ CheckerStep
    \/ ConsumerStep

\* The ticker keeps firing and the goroutines of Checker.Start, of its tasks
\* (a network attempt ends, by its timeout at the latest) and of
\* Collector.Start are scheduled; with no scrape the consumer's Lock is free.
FairTicking ==
    Init /\ [][NextTicking]_vars /\ WF_vars(CheckerStep) /\ WF_vars(ConsumerStep)

\* The server's wiring with Shutdown, for a single HTTP target: both workers
\* are started and scheduled, and the consumer's context is never cancelled.
FairShutdown ==
    /\ InitOne /\ [][NextWorkers]_vars
    /\ Fairness
    /\ WF_vars(ConsumerStep \/ ColClosed)

(* ----------------------------- properties ------------------------------ *)

\* C1: in every state a scrape holding the read lock can observe, every URL
\* with a lastResults entry has a count of at least 1 under the label of that
\* entry: the two updates of an ingest are never seen apart.
C1_IngestAtomicForScrapes ==
    readers > 0 =>
        \A u \in DOMAIN lastResults : Count(u, StatusLabel(lastResults[u])) >= 1

\* C1 witness: a scrape holds the read lock over a non-empty store while the
\* consumer has received the next result and waits for the write lock.
C1_Witness ==
    /\ readers > 0
    /\ colPc = "recv"
    /\ DOMAIN lastResults # {}

\* the orchestrator is between two ticks, every result it produced has left
\* the queue and the consumer holds none
Drained ==
    /\ startPc = "wait"
    /\ results = << >>
    /\ colPc = "loop"

\* C2: while the orchestrator is not cancelled, once the completed ticks'
\* results are drained, counters[t][label] is exactly the number of ticks in
\* which t's final outcome had that label.
C2_CounterFidelity ==
    (~ctxDone /\ Drained) =>
        \A u \in URLs : \A l \in Labels : Count(u, l) = produced[u][l]

\* C2 witness: three ticks, the third after the first two had filled the
\* queue, are drained with some counter at 2.
C2_Witness ==
    /\ ~ctxDone
    /\ Drained
    /\ tick = 3
    /\ \E u \in URLs : \E l \in Labels : Count(u, l) = 2

\* C3: no counter decreases or is reset from one state to the next.
C3_CountersNeverDecrease ==
    [][\A u \in AllURLs : \A l \in Labels : Count(u, l)' >= Count(u, l)]_vars

\* C4: a tick sends at most one result per target, a tick that was not cut
\* short has sent exactly one per target, and only cancellation cuts a tick
\* short.
C4_OneResultPerTargetPerTick ==
    /\ \A i \in TIdx : pushCount[i] <= 1
    /\ (startPc \in {"wait", "done"} /\ ~cutShort) => \A i \in TIdx : pushCount[i] = 1
    /\ cutShort => ctxDone

\* C4 witness: the second tick has ended, not cut short, with one result
\* sent for every target.
C4_Witness ==
    /\ startPc = "wait"
    /\ tick = 2
    /\ ~cutShort
    /\ \A i \in TIdx : pushCount[i] = 1

\* the errors a connection-level failure gives
ConnectionErrors == {"network error", "connection failed"}

\* C5: without cancellation, a task that ends with a connection-level error
\* has made exactly Retries+1 attempts, for HTTP and raw-connect targets
\* alike.
C5_RetriesPlusOneAttempts ==
    \A i \in TIdx :
        (~ctxDone /\ task[i].st = "done" /\ task[i].res.err \in ConnectionErrors)
            => task[i].n = Retries + 1

\* C6: an attempt that returns without an error ends the task at once, with
\* the returned status code and no error in the result.
C6_ResponseEndsTask ==
    \A i \in TIdx :
        (task[i].n >= 1 /\ task[i].last.err = NoErr) =>
            /\ task[i].st = "done"
            /\ task[i].res.err = NoErr
            /\ task[i].res.status = task[i].last.status

\* C6 witness: an HTTP target answered 500 on the first attempt and its task
\* is over after that one attempt, with Retries >= 1.
C6_Witness ==
    \E i \in TIdx :
        /\ task[i].st = "done"
        /\ task[i].n = 1
        /\ task[i].res.status = 500
        /\ task[i].res.err = NoErr
        /\ Retries >= 1

\* C7: without cancellation, the fan-in of a tick hands the results of all
\* the targets, failed ones included, to the sends, and after a tick Start
\* only goes on to the next tick.
C7_FailureIsolation ==
    [][/\ (startPc = "tasks" /\ startPc' # "tasks" /\ ~ctxDone) =>
              /\ startPc' = "push"
              /\ toPush' = TIdx
              /\ \A i \in TIdx : task'[i].res = task[i].res
       /\ (startPc = "wait" /\ startPc' # "wait" /\ ~ctxDone) =>
              /\ startPc' = "tasks"
              /\ \A i \in TIdx : task'[i].st = "run"]_vars

\* C7 witness: in the second tick, not cancelled, one target failed (here by
\* its unsupported scheme), another did not, and both results await sending.
C7_Witness ==
    /\ ~ctxDone
    /\ startPc = "push"
    /\ tick = 2
    /\ toPush = TIdx
    /\ \E i \in TIdx : task[i].res.err = "unsupported protocol"
    /\ \E i \in TIdx : task[i].res.err = NoErr

\* C8: once the cancellation signal is raised, Start eventually closes the
\* result queue and returns.
C8_StartReturnsAfterCancel ==
    (ctxDone /\ startPc # "idle") ~> (startPc = "done" /\ closed)

\* C8 witness: the signal is raised while a send is pending on a full queue
\* that no consumer reads.
C8_Witness ==
    /\ ctxDone
    /\ startPc = "push"
    /\ Len(results) = Capacity
    /\ colPc = "idle"

\* everything but the count of Shutdown calls
nonShutdownVars ==
    <<Targets, served, startPc, cancel, ctxDone, results, closed, task, toPush,
      tick, collectorVars, historyVars>>

\* C9, as claimed: every call of Shutdown after the first changes nothing.
C9_SecondShutdownChangesNothing ==
    [][(sdCalls >= 1 /\ sdCalls' = sdCalls + 1) => UNCHANGED nonShutdownVars]_vars

\* C9, amended: a call of Shutdown changes nothing once the context is
\* cancelled, so after any call that found the cancel handle stored; and a
\* call before the handle is stored changes nothing either.
C9_ShutdownIdempotentOnceCancelled ==
    [][(sdCalls' = sdCalls + 1 /\ (ctxDone \/ ~cancel)) =>
           UNCHANGED nonShutdownVars]_vars

\* C9 witness: Shutdown has been called twice with the handle stored, while
\* Start has not yet observed the cancellation.
C9_Witness ==
    /\ sdCalls = 2
    /\ cancel
    /\ ctxDone
    /\ startPc \in {"tasks", "push", "wait"}

\* C10: no result is sent on the queue once the context is cancelled.
C10_NoSendAfterCancel ==
    [][ctxDone => Len(results') <= Len(results)]_vars

\* C11: once the context is cancelled, no checkAllURLs round begins.
C11_NoTickAfterCancel ==
    [][ctxDone => tick' = tick]_vars

\* C12: Start has returned only if the context is cancelled, and the error
\* of a failed check is the error field of the task's result.
C12_StartReturnsOnlyAfterCancel ==
    /\ startPc = "done" => ctxDone
    /\ \A i \in TIdx :
           (task[i].st = "done" /\ task[i].last.err # NoErr) =>
               /\ task[i].res.err = task[i].last.err
               /\ startPc # "done"

\* C12 witness: two ticks with a failed check each have ended, nothing is
\* cancelled and Start waits for the next tick.
C12_Witness ==
    /\ ~ctxDone
    /\ startPc = "wait"
    /\ tick = 2
    /\ \E u \in URLs : produced[u]["error"] = 2

\* C13: the timestamp of a target's last result never goes back: a result
\* never replaces one taken at a later tick.
C13_LastResultInTickOrder ==
    [][\A u \in DOMAIN lastResults :
           /\ u \in DOMAIN lastResults'
           /\ lastResults'[u].tick >= lastResults[u].tick]_vars

\* C13 witness: the consumer has received a target's result of the third
\* tick while the store holds that target's result of the second.
C13_Witness ==
    /\ colPc = "recv"
    /\ colCur.tick = 3
    /\ colCur.url \in DOMAIN lastResults
    /\ lastResults[colCur.url].tick = 2

\* C14: every configured target has an entry in counters, in every state
\* from construction on.
C14_CountersEntryFromConstruction ==
    \A u \in URLs : u \in DOMAIN counters

\* the samples of the scrape in progress that carry url u
SamplesOf(u) == { s \in samples : s.url = u }

\* C15: a scrape emits samples only for targets that have a last result, a
\* last result is always one the checker produced for that target, and with
\* no last result at all the scrape is empty.
C15_NoSamplesWithoutResult ==
    /\ \A u \in DOMAIN lastResults :
           /\ lastResults[u].url = u
           /\ lastResults[u].tick >= 1
           /\ produced[u][StatusLabel(lastResults[u])] >= 1
    /\ scrPc = "reading" =>
           /\ \A u \in URLs \ DOMAIN lastResults : SamplesOf(u) = {}
           /\ (DOMAIN lastResults = {} => samples = {})

\* C15 witness: a scrape runs when the counters of both targets are
\* initialised and one target only has a last result; it has samples.
C15_Witness ==
    /\ scrPc = "reading"
    /\ URLs \subseteq DOMAIN counters
    /\ Cardinality(URLs) = 2
    /\ Cardinality(DOMAIN lastResults) = 1
    /\ samples # {}

\* the label the counters use for a result: "error", or the status code in
\* decimal
DecimalLabel(r) ==
    IF r.err # NoErr THEN "error"
    ELSE CASE r.status = 200 -> "200" [] r.status = 299 -> "299"
           [] r.status = 300 -> "300" [] r.status = 400 -> "400"
           [] r.status = 401 -> "401" [] r.status = 404 -> "404"
           [] r.status = 500 -> "500"

\* C17: the counter update of a result adds one to the counter of its url and
\* label and leaves every other counter as it was.
C17_OneLabelIncremented ==
    [][(colPc = "wrote" /\ colPc' = "loop") =>
           /\ \A u \in DOMAIN counters' : DOMAIN counters'[u] \subseteq Labels
           /\ \A u \in AllURLs : \A l \in Labels :
                  Count(u, l)' =
                      Count(u, l) +
                      (IF u = colCur.url /\ l = DecimalLabel(colCur) THEN 1 ELSE 0)]_vars

\* C17 witness: a response with status 500 has been counted under "500" and
\* nothing under "error".
C17_Witness ==
    \E u \in DOMAIN lastResults :
        /\ colPc = "loop"
        /\ lastResults[u].status = 500
        /\ lastResults[u].err = NoErr
        /\ Count(u, "500") >= 1
        /\ Count(u, "error") = 0

\* the samples of the scrape in progress named name that carry url u
Named(name, u) == { s \in SamplesOf(u) : s.name = name }

\* C18: a scrape has one url_up sample per target with a last result, with
\* value 1 when the result has no error and a status in [200, 300), else 0.
C18_UrlUpIffSuccess ==
    scrPc = "reading" =>
        \A u \in DOMAIN lastResults :
            /\ Cardinality(Named("url_up", u)) = 1
            /\ \A s \in Named("url_up", u) :
                   /\ s.value \in {0, 1}
                   /\ s.value = 1 <=>
                          /\ lastResults[u].err = NoErr
                          /\ lastResults[u].status >= 200
                          /\ lastResults[u].status < 300

\* C18 witness: a scrape of a target whose last response had status 300.
C18_Witness ==
    /\ scrPc = "reading"
    /\ \E u \in DOMAIN lastResults :
           /\ lastResults[u].status = 300
           /\ Sample("url_up", u, "", 0) \in samples

\* C19: a scrape has one url_error sample per target with a last result, with
\* value 1 when the result carries an error, else 0; url_up and url_error are
\* never both 1.
C19_UrlErrorIffError ==
    scrPc = "reading" =>
        \A u \in DOMAIN lastResults :
            /\ Cardinality(Named("url_error", u)) = 1
            /\ \A s \in Named("url_error", u) :
                   /\ s.value \in {0, 1}
                   /\ s.value = 1 <=> lastResults[u].err # NoErr
            /\ ~ /\ Sample("url_up", u, "", 1) \in samples
                 /\ Sample("url_error", u, "", 1) \in samples

\* C19 witness: a scrape of a target whose last response had status 401.
C19_Witness ==
    /\ scrPc = "reading"
    /\ \E u \in DOMAIN lastResults :
           /\ lastResults[u].status = 401
           /\ Sample("url_error", u, "", 0) \in samples

\* the names of the gauges
GaugeNames ==
    {"url_up", "url_error", "url_response_time_milliseconds", "url_http_status_code"}

\* the gauge samples of the scrape in progress that carry url u
GaugesOf(u) == { s \in SamplesOf(u) : s.name \in GaugeNames }

\* C20: a scrape has the response time and status code samples of a target
\* exactly when its last result has no error: four gauges then, two else.
C20_LatencyAndStatusOnlyWithoutError ==
    scrPc = "reading" =>
        \A u \in DOMAIN lastResults :
            LET ok == lastResults[u].err = NoErr IN
            /\ (Named("url_response_time_milliseconds", u) # {}) <=> ok
            /\ (Named("url_http_status_code", u) # {}) <=> ok
            /\ Cardinality(GaugesOf(u)) = IF ok THEN 4 ELSE 2
            /\ ok => Sample("url_http_status_code", u, "", lastResults[u].status)
                         \in samples

\* C20 witness: a scrape of a target whose last result is a network error
\* and which had a counted response before.
C20_Witness ==
    /\ scrPc = "reading"
    /\ \E u \in DOMAIN lastResults :
           /\ lastResults[u].err = "network error"
           /\ Cardinality(GaugesOf(u)) = 2
           /\ Count(u, "200") >= 1

\* the number of results counted for url u, over all the labels
RECURSIVE SumCounts(_, _)
SumCounts(u, ls) ==
    IF ls = {} THEN 0
    ELSE LET l == CHOOSE x \in ls : TRUE IN Count(u, l) + SumCounts(u, ls \ {l})

\* url u has failed in every tick so far
FailedSoFar(u) == \A l \in Labels \ {"error"} : produced[u][l] = 0

\* every tick the ticker delivers has been counted for every target, all
\* under "error" for a target without a checker
AllTicksCounted ==
    \A u \in URLs :
        /\ SumCounts(u, Labels) = MaxTicks
        /\ u.scheme \notin DOMAIN checkers => Count(u, "error") = MaxTicks

\* a scrape waits for nothing but the consumer's short write section: it
\* can begin whenever the write lock is free and can end once begun
ScrapeNeverStalls ==
    /\ (scrPc = "idle" /\ ~writer) => ENABLED ScrapeBegin
    /\ scrPc = "reading" => ENABLED ScrapeEnd

\* C16: a target that fails in every tick has all its results counted under
\* "error" and shows url_up = 0 and url_error = 1 in every scrape after its
\* first result; no scrape is stalled; and the results of every tick get
\* counted for every target.
C16_PermanentFailure ==
    /\ [](\A u \in URLs : FailedSoFar(u) =>
              /\ SumCounts(u, Labels) = Count(u, "error")
              /\ (scrPc = "reading" /\ u \in DOMAIN lastResults) =>
                     /\ Sample("url_up", u, "", 0) \in samples
                     /\ Sample("url_error", u, "", 1) \in samples)
    /\ []ScrapeNeverStalls
    /\ <>[]AllTicksCounted

\* C16 witness: a target without a checker has failed in every tick, all
\* counted under "error", the other target has a response, and a scrape
\* runs.
C16_Witness ==
    /\ AllTicksCounted
    /\ scrPc = "reading"
    /\ \E u \in URLs : u.scheme \notin DOMAIN checkers /\ u \in DOMAIN lastResults
    /\ \E u \in URLs : u \in DOMAIN lastResults /\ lastResults[u].err = NoErr

\* the samples of one counter family a scrape holds for a target and a label
CounterSamplesOf(name, u, l) ==
    { s \in samples : s.name = name /\ s.url = u /\ s.label = l }

\* C21: while a scrape reads, every target with a last result has, for every
\* status label its counters hold, exactly one url_check_total sample and
\* exactly one url_status_code_total sample, both with the value of
\* counters[target][label]; a label never counted has no sample of either
C21_CounterFamiliesAgree ==
    scrPc = "reading" =>
        \A u \in DOMAIN lastResults : \A l \in Labels :
            LET want == IF Count(u, l) > 0 THEN {Count(u, l)} ELSE {}
                total == { s.value : s \in CounterSamplesOf("url_check_total", u, l) }
                codes == { s.value : s \in CounterSamplesOf("url_status_code_total", u, l) }
            IN total = want /\ codes = want

C21_Witness ==
    /\ scrPc = "reading"
    /\ \E u \in DOMAIN lastResults :
         /\ Count(u, "error") = 2
         /\ Count(u, "500") = 1
         /\ Sample("url_check_total", u, "error", 2) \in samples
         /\ Sample("url_status_code_total", u, "error", 2) \in samples
         /\ Sample("url_status_code_total", u, "500", 1) \in samples

\* the result checkURL builds for a scheme performCheck does not know
UnsupportedResult(r) == r.err = "unsupported protocol" /\ r.status = 0

\* C22: a target whose scheme has no registered checker gets, on every tick,
\* one terminal result with the error "unsupported protocol" and status 0:
\* its task ends without any network attempt (so without retry or backoff),
\* every tick whose tasks have ended has produced one such result for it,
\* nothing else is ever produced, queued or stored for it, and a tick that
\* was not cut short has sent exactly one result for it
C22_UnsupportedIsTerminalAtOnce ==
    \A i \in TIdx :
        Targets[i].scheme \notin DOMAIN checkers =>
            /\ task[i].st = "done" =>
                   /\ task[i].n = 0
                   /\ UnsupportedResult(task[i].res)
                   /\ task[i].res.tick = tick
            /\ \A l \in Labels \ {"error"} : produced[Targets[i]][l] = 0
            /\ (startPc \in {"push", "wait", "done"} /\ tick > 0)
                   => produced[Targets[i]]["error"] = tick
            /\ (startPc \in {"wait", "done"} /\ tick > 0 /\ ~cutShort)
                   => pushCount[i] = 1
            /\ \A k \in 1..Len(results) :
                   results[k].url = Targets[i] => UnsupportedResult(results[k])
            /\ Targets[i] \in DOMAIN lastResults
                   => UnsupportedResult(lastResults[Targets[i]])

\* C22 witness: the second tick has sent its result for a target with an
\* unknown scheme, the first one is already stored
C22_Witness ==
    \E i \in TIdx :
        /\ Targets[i].scheme \notin DOMAIN checkers
        /\ tick = 2
        /\ startPc = "wait"
        /\ pushCount[i] = 1
        /\ produced[Targets[i]]["error"] = 2
        /\ Targets[i] \in DOMAIN lastResults
        /\ \E k \in 1..Len(results) : results[k].url = Targets[i] /\ results[k].tick = 2

\* the targets the raw-connect checker is registered for
RawConnect(u) ==
    u.scheme \in DOMAIN checkers /\ checkers[u.scheme] = "TelnetChecker"

\* C23: a raw-connect target whose dial succeeded gives a result with status
\* 200 and no error after that single dial, nothing being exchanged on the
\* connection; and a scrape that finds such a result as the last one of the
\* target reports url_up = 1 and url_http_status_code = 200 for it
C23_ConnectMeansUp ==
    /\ \A i \in TIdx :
           (RawConnect(Targets[i]) /\ task[i].st = "done" /\ task[i].last.err = NoErr)
               => /\ task[i].n = 1
                  /\ task[i].res.status = 200
                  /\ task[i].res.err = NoErr
    /\ \A u \in DOMAIN lastResults :
           (RawConnect(u) /\ lastResults[u].err = NoErr) =>
               /\ lastResults[u].status = 200
               /\ scrPc = "reading" =>
                      /\ { s.value : s \in Named("url_up", u) } = {1}
                      /\ { s.value : s \in Named("url_http_status_code", u) } = {200}

\* C23 witness: a scrape reads the result of a successful dial
C23_Witness ==
    /\ scrPc = "reading"
    /\ \E u \in DOMAIN lastResults :
         /\ RawConnect(u)
         /\ lastResults[u].err = NoErr
         /\ Sample("url_up", u, "", 1) \in samples
         /\ Sample("url_http_status_code", u, "", 200) \in samples

\* C26: a result enters the queue only in a step taken after the tasks of
\* all targets of the tick have ended (Start is then in the sending loop and
\* no task runs), and it is a result of the current tick; so while one task
\* of a tick still runs nothing of that tick is in the queue
C26_NoSendBeforeAllTasksEnd ==
    /\ [][Len(results') > Len(results) =>
             /\ startPc = "push"
             /\ \A i \in TIdx : task[i].st # "run"
             /\ results'[Len(results')].tick = tick]_vars
    /\ [](startPc = "tasks" =>
             \A k \in 1..Len(results) : results[k].tick < tick)

\* C26 witness: in the second tick one task has ended and another still
\* runs, and nothing of the tick has been sent
C26_Witness ==
    /\ tick = 2
    /\ startPc = "tasks"
    /\ \E i, j \in TIdx : task[i].st = "done" /\ task[j].st = "run"
    /\ \A i \in TIdx : pushCount[i] = 0
    /\ results # << >>

\* C27: the queue New creates holds 2 * len(cfg.Targets) results, and the
\* number of results queued never exceeds that
C27_QueueBounded ==
    /\ Capacity = 2 * Len(Targets)
    /\ Len(results) <= 2 * Len(Targets)

\* C27 witness: the queue is full and Start has a result it cannot send
C27_Witness ==
    /\ Len(results) = 2 * Len(Targets)
    /\ startPc = "push"
    /\ toPush # {}

\* C28: the first tick is the step Start takes right after storing its
\* cancel handle, without waiting in its select; every later tick is started
\* from the select where Start waits for the ticker; and every tick, the
\* first as the later ones, starts one task per configured target
C28_FirstTickImmediate ==
    /\ [][tick' # tick =>
             /\ tick' = tick + 1
             /\ startPc' = "tasks"
             /\ (tick = 0) = (startPc = "first")
             /\ (tick > 0) = (startPc = "wait")
             /\ \A i \in TIdx : task'[i].st = "run" /\ task'[i].n = 0]_vars
    /\ [](startPc \in {"wait", "tasks", "push", "done"} => tick >= 1)

\* C28 witness: the second tick has just started its tasks, one per target,
\* after a first tick that produced one result per target
C28_Witness ==
    /\ startPc = "tasks"
    /\ tick = 2
    /\ \A i \in TIdx : task[i].st = "run"
    /\ \A u \in URLs : \E l \in Labels :
           produced[u][l] = 1 /\ \A m \in Labels \ {l} : produced[u][m] = 0

\* C29: the timestamp of a result is taken when its check completes: not
\* before the attempt that gave the reported outcome (the last of the n
\* attempts of the task) has started, that is after n - 1 attempts at least
C29_TimestampAtCompletion ==
    \A i \in TIdx :
        task[i].st = "done" => task[i].res.stamp >= task[i].n - 1

\* C24: when the consumer stops after its context was cancelled, it has
\* received every result that was in the queue when the cancellation was
\* signalled
C24_DrainsBeforeStopping ==
    colPc = "done" => owed = 0

\* C25: once its context is cancelled, Collector.Start returns, whether or
\* not the queue is ever closed and whether or not a result ever arrives
C25_ConsumerReturnsAfterCancel ==
    colCtxDone ~> (colPc = "done")

\* C25 witness: Start has returned after the cancellation although the
\* queue is open and the checker never produced a result
C25_Witness ==
    /\ colPc = "done"
    /\ colCtxDone
    /\ ~closed
    /\ tick = 0
    /\ results = << >>
    /\ lastResults = EmptyMap

\* a task of the current tick is still running while another one has ended:
\* the slow target holds back the results of its tick
Stalled ==
    /\ startPc = "tasks"
    /\ \E i, j \in TIdx : task[i].st = "run" /\ task[j].st = "done"

C32_ScrapeIndependentOfChecker ==
    /\ ScrapeNeverStalls
    /\ writer <=> (colPc = "wrote")
    /\ writer => ENABLED ColCount
    /\ readers = IF scrPc = "reading" THEN 1 ELSE 0

\* C32 witness: a scrape is reading while the queue is full and Start is
\* blocked on a send
C32_Witness ==
    /\ scrPc = "reading"
    /\ Len(results) = Capacity
    /\ startPc = "push"
    /\ toPush # {}

\* the entries of a map m2 are those of m1, but for the key k
SameButAt(m1, m2, k) ==
    /\ (DOMAIN m2) \ {k} = (DOMAIN m1) \ {k}
    /\ \A x \in (DOMAIN m1) \ {k} : m2[x] = m1[x]

\* the step is neither one of the orchestrator or its tasks nor one of a
\* scrape
NotCheckerNorScrape ==
    UNCHANGED <<startPc, cancel, ctxDone, closed, task, toPush, tick, scrPc, samples, readers>>

\* C33: the store changes only in the two steps of an ingest of the result
\* the consumer took from the queue (and when Collector.Start sets up the
\* counters): lastResults changes at the result's url only, to that result;
\* counters changes at that url only, and there at the result's status label
\* only, by one; Collect, the orchestrator and its tasks change nothing
C33_IngestFrame ==
    [][/\ lastResults' # lastResults =>
              /\ colPc = "recv" /\ colPc' = "wrote"
              /\ NotCheckerNorScrape
              /\ SameButAt(lastResults, lastResults', colCur.url)
              /\ lastResults'[colCur.url] = colCur
              /\ counters' = counters
       /\ (counters' # counters /\ colPc # "init") =>
              /\ colPc = "wrote" /\ colPc' = "loop"
              /\ NotCheckerNorScrape
              /\ SameButAt(counters, counters', colCur.url)
              /\ LET old == IF colCur.url \in DOMAIN counters
                            THEN counters[colCur.url] ELSE EmptyMap
                     new == counters'[colCur.url]
                 IN  /\ SameButAt(old, new, StatusLabel(colCur))
                     /\ new[StatusLabel(colCur)] = MapGet(old, StatusLabel(colCur)) + 1
              /\ lastResults' = lastResults
       /\ (counters' # counters /\ colPc = "init") =>
              /\ NotCheckerNorScrape
              /\ lastResults' = lastResults]_vars

\* C33 witness: both targets have a last result and counts, one of them
\* under two labels, and an ingest is about to count one more
C33_Witness ==
    /\ colPc = "wrote"
    /\ \A u \in URLs : u \in DOMAIN lastResults /\ \E l \in Labels : Count(u, l) > 0
    /\ Count(colCur.url, "error") > 0
    /\ Count(colCur.url, "500") > 0

\* rest.Config.RetryWaitTime given to the REST client by New, in seconds
RetryWaitTime == 1

\* the seconds a task has spent waiting between its attempts: the REST
\* client waits RetryWaitTime before each retry, and neither checkURL nor
\* TelnetChecker.Check waits or retries at all
BackoffWaited(i) ==
    IF Targets[i].scheme \in DOMAIN checkers
       /\ checkers[Targets[i].scheme] = "HTTPChecker" /\ task[i].n > 1
    THEN (task[i].n - 1) * RetryWaitTime
    ELSE 0

\* 1 + 2 + ... + r
RECURSIVE LinearBackoff(_)
LinearBackoff(r) == IF r <= 0 THEN 0 ELSE r + LinearBackoff(r - 1)

\* C34: without cancellation, a task that ends with a connection-level error
\* has waited 1s before its first retry, 2s before its second, and so on:
\* 1 + 2 + ... + Retries seconds in all
C34_LinearBackoffTotal ==
    \A i \in TIdx :
        (~ctxDone /\ task[i].st = "done" /\ task[i].res.err \in ConnectionErrors)
            => BackoffWaited(i) = LinearBackoff(Retries)

\* every Result there is: those the ended tasks hold, those in the queue,
\* the one the consumer is ingesting and those in the store
AllResults ==
    { task[i].res : i \in { j \in TIdx : task[j].st = "done" } }
    \cup { results[k] : k \in 1..Len(results) }
    \cup (IF colPc \in {"recv", "wrote"} THEN {colCur} ELSE {})
    \cup { lastResults[u] : u \in DOMAIN lastResults }

\* C35: a result with an error has status code 0 and response time 0, so no
\* result has an error and a status code; a result without error has the
\* status code the protocol checker returned, and a result with one has the
\* checker's error
C35_ErrorMeansNoStatus ==
    /\ \A r \in AllResults : r.err # NoErr => (r.status = 0 /\ r.ms = 0)
    /\ \A i \in TIdx :
           task[i].st = "done" =>
               /\ task[i].res.err = task[i].last.err
               /\ task[i].last.err = NoErr => task[i].res.status = task[i].last.status

\* C35 witness: the store holds a result with an error and one with a status
\* code
C35_Witness ==
    \E u, v \in DOMAIN lastResults :
        /\ lastResults[u].err # NoErr /\ lastResults[u].status = 0
        /\ lastResults[v].err = NoErr /\ lastResults[v].status = 500

\* C36: the queue is closed by one step only, the return of Start from its
\* select on a cancelled context, which Start takes once: the queue is
\* closed exactly when Start has returned, Start never leaves that state,
\* and a closed queue never gets a result, it only loses those the consumer
\* takes
C36_ClosedOnceNoSendAfter ==
    /\ [](closed <=> (startPc = "done"))
    /\ [][/\ closed' # closed =>
                 /\ ~closed /\ ctxDone
                 /\ startPc = "wait" /\ startPc' = "done"
                 /\ toPush = {} /\ results' = results
          /\ closed => /\ closed' /\ startPc' = "done"
                       /\ results' # results => (results # << >> /\ results' = Tail(results))
         ]_vars

\* C36 witness: Start has closed the queue with results still in it, after
\* two calls of Shutdown
C36_Witness ==
    /\ closed
    /\ results # << >>
    /\ sdCalls = 2
    /\ tick >= 2

\* C37: a tick starts only when the one before is over: no task is running
\* or holds a result, nothing is left to send, and every result of the tick
\* before has been sent unless the tick was cut short by the cancellation;
\* so the tasks in flight are those of the current tick alone, one per
\* target
C37_TicksNeverOverlap ==
    /\ [][tick' # tick =>
             /\ \A i \in TIdx : task[i].st = "none"
             /\ toPush = {}
             /\ tick > 0 => (cutShort \/ \A i \in TIdx : pushCount[i] = 1)]_vars
    /\ [](\A i \in TIdx :
             /\ task[i].st # "none" => startPc \in {"tasks", "push"}
             /\ task[i].st = "done" => task[i].res.tick = tick)

\* C37 witness: the third tick starts after the second has sent all its
\* results
C37_Witness ==
    /\ tick = 3
    /\ startPc = "tasks"
    /\ \A i \in TIdx : task[i].st = "run" /\ pushCount[i] = 0
    /\ Len(results) >= Len(Targets)
    /\ results[Len(results)].tick = 2

\* C38: a Shutdown that finds no cancel handle stored changes nothing but
\* returns; the context of Start is cancelled only by a Shutdown that finds
\* the handle; and until then Start, whatever Shutdown calls came before it
\* stored the handle, cannot leave its select through the ctx.Done() case
\* and starts the next tick when the ticker fires
C38_EarlyShutdownIsLost ==
    /\ [][(sdCalls' = sdCalls + 1 /\ ~cancel) => UNCHANGED nonShutdownVars]_vars
    /\ [][ctxDone' # ctxDone => (cancel /\ sdCalls' = sdCalls + 1)]_vars
    /\ [](~ctxDone /\ startPc = "wait" =>
             /\ ~ENABLED WaitDone
             /\ tick < MaxTicks => ENABLED WaitTicker)

\* C38 witness: Shutdown was called once before Start stored its handle, and
\* Start has gone through all its ticks with its context never cancelled;
\* one more Shutdown can still be made
C38_Witness ==
    /\ sdCalls = 1
    /\ cancel
    /\ ~ctxDone
    /\ tick = MaxTicks
    /\ startPc = "wait"
    /\ ENABLED Shutdown

\* C39: in the server's wiring a Shutdown that cancels Start's context makes
\* both workers end: Start closes the queue and returns, and the consumer
\* returns too, which it does only from the closed and empty queue, with no
\* result in its hands: every result that was queued has been ingested
C39_ShutdownEndsBothWorkers ==
    /\ ctxDone ~> (startPc = "done" /\ colPc = "done")
    /\ [](colPc = "done" =>
             /\ closed /\ startPc = "done"
             /\ results = << >>
             /\ colCur = NoResult /\ ~writer)
    /\ [][results' # results /\ closed =>
             (colPc = "loop" /\ colPc' = "recv" /\ colCur' = Head(results))]_vars

\* C39 witness: both workers have ended after a Shutdown that came with
\* the queue full, and both results have been counted
C39_Witness ==
    /\ startPc = "done"
    /\ colPc = "done"
    /\ sdCalls >= 1
    /\ tick = 2
    /\ ~cutShort
    /\ \A u \in URLs : SumCounts(u, Labels) = 2

====
